---- MODULE Spec2Model ----
(***************************************************************************)
(* A model of the reminder list manager: the Reminder entity, the          *)
(* ReminderManager collection and the versioned StorageLayer over          *)
(* localStorage.                                                           *)
(*                                                                         *)
(* JavaScript values are tagged records (field t is the type tag), so that *)
(* truthiness, default parameters, null and undefined are modelled as the  *)
(* language defines them.  A string is a sequence of symbols of a small    *)
(* alphabet; " " is the whitespace symbol.  A missing property of an       *)
(* object reads as undefined, so a record holds Undef for it.              *)
(***************************************************************************)
EXTENDS Integers, Sequences, FiniteSets, TLC

\* Bounds of the model.
MaxObj == 3     \* Reminder objects the callers ever keep
MaxLen == 3     \* longest collection a manager is grown to
MaxTime == 2    \* the clock runs over 0..MaxTime
MaxCalls == 4   \* calls made in one run

VARIABLES
  heap,        \* the Reminder objects, by reference: slot -> object or Free
  reminders,   \* ReminderManager.reminders: a sequence of references
  remindersB,  \* the reminders of a second manager on the same storage key
  storeVal,    \* localStorage's value at the storage key, Null when none
  storeMode,   \* "ok", "full" (setItem throws) or "absent" (no localStorage)
  now,         \* the clock read by Temporal.Now.plainDateTimeISO()
  last,        \* the last call made: its name, arguments and outcome
  calls        \* the number of calls made so far

vars == <<heap, reminders, remindersB, storeVal, storeMode, now, last, calls>>

----------------------------------------------------------------------------
(* JavaScript values *)

Null == [t |-> "null"]
Undef == [t |-> "undefined"]
Free == [t |-> "free"]
S(symbols) == [t |-> "string", s |-> symbols]
Bool(b) == [t |-> "bool", b |-> b]
DateTime(n) == [t |-> "PlainDateTime", n |-> n]

Times == 0..MaxTime
Slots == 1..MaxObj

\* ToBoolean: null, undefined, "" and false are falsy, everything else truthy.
Truthy(v) ==
  CASE v.t = "null" -> FALSE
    [] v.t = "undefined" -> FALSE
    [] v.t = "string" -> v.s # <<>>
    [] v.t = "bool" -> v.b
    [] OTHER -> TRUE

\* a || b
OrElse(a, b) == IF Truthy(a) THEN a ELSE b

\* A default parameter value applies to undefined only (not to null or "").
Default(v, d) == IF v = Undef THEN d ELSE v

RECURSIVE TrimStart(_)
TrimStart(s) == IF s # <<>> /\ Head(s) = " " THEN TrimStart(Tail(s)) ELSE s

RECURSIVE TrimEnd(_)
TrimEnd(s) ==
  IF s # <<>> /\ s[Len(s)] = " " THEN TrimEnd(SubSeq(s, 1, Len(s) - 1)) ELSE s

\* String.prototype.trim
Trim(s) == TrimEnd(TrimStart(s))

Ok(v) == [ok |-> TRUE, val |-> v]
Throw(msg) == [ok |-> FALSE, err |-> msg]

\* Temporal.PlainDateTime.prototype.toString: the ISO 8601 text of the value.
PlainDateTime_toString(d) == S(<<"T" \o ToString(d.n)>>)

\* Date.prototype.toISOString: an instant in UTC, with the Z designator.
Date_toISOString(n) == S(<<"T" \o ToString(n) \o "Z">>)

\* Temporal.PlainDateTime.from: a PlainDateTime is copied, an ISO 8601 string
\* without a UTC designator is parsed, anything else raises.
PlainDateTime_from(v) ==
  IF v.t = "PlainDateTime" THEN Ok(v)
  ELSE IF v.t = "string" /\ \E n \in Times : v = PlainDateTime_toString(DateTime(n))
    THEN Ok(DateTime(CHOOSE n \in Times : v = PlainDateTime_toString(DateTime(n))))
  ELSE IF v.t = "string" THEN Throw("RangeError")
  ELSE Throw("TypeError")

\* Temporal.PlainDateTime.compare
PlainDateTime_compare(a, b) == IF a.n < b.n THEN -1 ELSE IF a.n > b.n THEN 1 ELSE 0

----------------------------------------------------------------------------
(* Reminder *)

validPriorities == {S(<<"low">>), S(<<"medium">>), S(<<"high">>)}
validProperties == {"title", "description", "dueDate", "priority", "category"}

\* Reminder._generateId: Date.now() and Math.random() make the id fresh; the
\* slot of the object under construction stands for that fresh value.
generateId(slot) == S(<<"reminder_" \o ToString(slot)>>)

TitleIsBlank(title) == ~Truthy(title) \/ Trim(title.s) = <<>>

\* A constructor without the priority check.
ReminderNoPriorityCheck(slot, title, description, dueDate, priority, category, t) ==
  IF TitleIsBlank(title) THEN Throw("Title is required")
  ELSE Ok([t |-> "Reminder",
           id |-> generateId(slot),
           title |-> title,
           description |-> Default(description, S(<<>>)),
           dueDate |-> Default(dueDate, Null),
           priority |-> Default(priority, S(<<"medium">>)),
           category |-> Default(category, S(<<"general">>)),
           isCompleted |-> Bool(FALSE),
           createdAt |-> DateTime(t),
           completedAt |-> Null])

\* new Reminder(title, description, dueDate, priority, category)
Reminder(slot, title, description, dueDate, priority, category, t) ==
  IF TitleIsBlank(title) THEN Throw("Title is required")
  ELSE IF Default(priority, S(<<"medium">>)) \notin validPriorities
    THEN Throw("Invalid priority level")
  ELSE Ok([t |-> "Reminder",
           id |-> generateId(slot),
           title |-> title,
           description |-> Default(description, S(<<>>)),
           dueDate |-> Default(dueDate, Null),
           priority |-> Default(priority, S(<<"medium">>)),
           category |-> Default(category, S(<<"general">>)),
           isCompleted |-> Bool(FALSE),
           createdAt |-> DateTime(t),
           completedAt |-> Null])

\* An isOverdue that counts a due date equal to now as overdue.
isOverdueNotStrict(r, t) ==
  IF ~Truthy(r.dueDate) \/ Truthy(r.isCompleted) THEN FALSE
  ELSE PlainDateTime_compare(r.dueDate, DateTime(t)) <= 0

\* Reminder.isOverdue
isOverdue(r, t) ==
  IF ~Truthy(r.dueDate) \/ Truthy(r.isCompleted) THEN FALSE
  ELSE PlainDateTime_compare(r.dueDate, DateTime(t)) < 0

\* A markComplete that completes when called without an argument.
markCompleteNoToggle(r, completed, t) ==
  LET c == IF completed = Null THEN Bool(TRUE) ELSE completed
  IN [r EXCEPT !.isCompleted = c,
               !.completedAt = IF Truthy(c) THEN DateTime(t) ELSE Null]

\* Reminder.markComplete(completed = null)
markComplete(r, completed, t) ==
  LET c == IF Default(completed, Null) = Null
             THEN Bool(~Truthy(r.isCompleted))
             ELSE completed
  IN [r EXCEPT !.isCompleted = c,
               !.completedAt = IF Truthy(c) THEN DateTime(t) ELSE Null]

\* A toJSON that leaves completedAt out.
toJSONDropCompletedAt(r) ==
  [t |-> "record",
   id |-> r.id,
   title |-> r.title,
   description |-> r.description,
   dueDate |-> IF Truthy(r.dueDate) THEN PlainDateTime_toString(r.dueDate) ELSE Null,
   priority |-> r.priority,
   category |-> r.category,
   isCompleted |-> r.isCompleted,
   createdAt |-> PlainDateTime_toString(r.createdAt),
   completedAt |-> Null]

\* Reminder.toJSON
toJSON(r) ==
  [t |-> "record",
   id |-> r.id,
   title |-> r.title,
   description |-> r.description,
   dueDate |-> IF Truthy(r.dueDate) THEN PlainDateTime_toString(r.dueDate) ELSE Null,
   priority |-> r.priority,
   category |-> r.category,
   isCompleted |-> r.isCompleted,
   createdAt |-> PlainDateTime_toString(r.createdAt),
   completedAt |-> IF Truthy(r.completedAt)
                     THEN PlainDateTime_toString(r.completedAt) ELSE Null]

\* Reminder.fromJSON: reading a property of null or undefined raises.
fromJSON(slot, json, t) ==
  IF json.t # "record" THEN Throw("TypeError")
  ELSE
    LET c == Reminder(slot, json.title, json.description, Null,
                      json.priority, json.category, t)
        due == IF Truthy(json.dueDate) THEN PlainDateTime_from(json.dueDate)
               ELSE Ok(Null)
        created == PlainDateTime_from(json.createdAt)
        done == IF Truthy(json.completedAt) THEN PlainDateTime_from(json.completedAt)
                ELSE Ok(Null)
    IN IF ~c.ok THEN c
       ELSE IF ~due.ok THEN due
       ELSE IF ~created.ok THEN created
       ELSE IF ~done.ok THEN done
       ELSE Ok([c.val EXCEPT !.id = json.id,
                             !.dueDate = due.val,
                             !.isCompleted = json.isCompleted,
                             !.createdAt = created.val,
                             !.completedAt = done.val])

\* Reminder.update: the entries of the argument are applied in key order, each
\* one checked just before it is assigned.  The result is the object as the
\* call leaves it, and the error it raised ("" when it returned).
RECURSIVE updateFrom(_, _, _)
updateFrom(r, properties, i) ==
  IF i > Len(properties) THEN [obj |-> r, err |-> ""]
  ELSE
    LET key == properties[i][1]
        value == properties[i][2]
    IN IF key \notin validProperties THEN updateFrom(r, properties, i + 1)
       ELSE IF key = "title" /\ TitleIsBlank(value)
         THEN [obj |-> r, err |-> "Title is required"]
       ELSE IF key = "priority" /\ value \notin validPriorities
         THEN [obj |-> r, err |-> "Invalid priority level"]
       ELSE updateFrom([r EXCEPT ![key] = value], properties, i + 1)

update(r, properties) == updateFrom(r, properties, 1)

\* Reminder.clone
clone(slot, r, t) ==
  LET c == Reminder(slot, r.title, r.description, r.dueDate, r.priority, r.category, t)
  IN IF ~c.ok THEN c
     ELSE Ok([c.val EXCEPT !.isCompleted = r.isCompleted,
                           !.createdAt = r.createdAt,
                           !.completedAt = r.completedAt])

----------------------------------------------------------------------------
(* JSON and localStorage *)

Array(items) == [t |-> "array", a |-> items]
Envelope(version, data) == [t |-> "object", version |-> version, data |-> data]

\* JSON.stringify: the text of a JSON value (a property holding undefined is
\* left out, which is how a record holding Undef reads back).
JSON_stringify(value) == [t |-> "string", s |-> <<"json">>, json |-> value]

\* JSON.parse: raises SyntaxError on a text that is not JSON.
JSON_parse(text) ==
  IF "json" \in DOMAIN text THEN Ok(text.json) ELSE Throw("SyntaxError")

\* A plain object holding the given properties, the others missing.
NoProps ==
  [t |-> "record", id |-> Undef, title |-> Undef, description |-> Undef,
   dueDate |-> Undef, priority |-> Undef, category |-> Undef,
   isCompleted |-> Undef, createdAt |-> Undef, completedAt |-> Undef]

\* typeof v === 'object' (null included, as in JavaScript)
IsObject(v) == v.t \in {"null", "record", "Reminder", "array", "object", "PlainDateTime"}

\* v instanceof Reminder
IsReminder(v) == v.t = "Reminder"

\* Reading property key of v: undefined unless v is an object that has it.
Prop(v, key) == IF v.t \in {"record", "Reminder"} THEN v[key] ELSE Undef

\* The objects a sequence of references stands for.
Deref(h, refs) == [i \in 1..Len(refs) |-> h[refs[i]]]

Used(h) == Cardinality({s \in Slots : h[s] # Free})

\* The heap with the objects vals placed in the next free slots.
Alloc(h, vals) ==
  [s \in Slots |->
     IF s > Used(h) /\ s <= Used(h) + Len(vals) THEN vals[s - Used(h)] ELSE h[s]]

\* items.map(item => Reminder.fromJSON(item)): the first raise ends the map.
RECURSIVE mapFromJSON(_, _, _, _)
mapFromJSON(items, i, base, t) ==
  IF i > Len(items) THEN Ok(<<>>)
  ELSE
    LET r == fromJSON(base + i, items[i], t)
        rest == mapFromJSON(items, i + 1, base, t)
    IN IF ~r.ok THEN r
       ELSE IF ~rest.ok THEN rest
       ELSE Ok(<<r.val>> \o rest.val)

----------------------------------------------------------------------------
(* ReminderManager: storage *)

\* A save that adds its records to the array the key already holds.
managerSaveMerging(objs, sv, mode) ==
  IF mode # "ok" THEN sv
  ELSE
    LET new == [i \in 1..Len(objs) |-> toJSON(objs[i])]
        old == IF Truthy(sv) /\ JSON_parse(sv).ok /\ JSON_parse(sv).val.t = "array"
                 THEN JSON_parse(sv).val.a ELSE <<>>
    IN JSON_stringify(Array(old \o new))

\* A manager save that writes the version-1 envelope.
managerSaveEnvelope(objs, sv, mode) ==
  IF mode # "ok" THEN sv
  ELSE JSON_stringify(Envelope(1, Array([i \in 1..Len(objs) |-> toJSON(objs[i])])))

\* ReminderManager.save: the value at the key after the call.  A raise of
\* setItem (no localStorage, quota exceeded) is logged and swallowed.
managerSave(objs, sv, mode) ==
  IF mode # "ok" THEN sv
  ELSE JSON_stringify(Array([i \in 1..Len(objs) |-> toJSON(objs[i])]))

\* ReminderManager.load: the objects of the collection after the call.  Any
\* raise (no localStorage, bad JSON, not an array, a record fromJSON rejects)
\* leaves the collection empty.
managerLoad(sv, mode, base, t) ==
  IF mode = "absent" THEN <<>>
  ELSE IF ~Truthy(sv) THEN <<>>
  ELSE
    LET parsed == JSON_parse(sv) IN
    IF ~parsed.ok THEN <<>>
    ELSE IF parsed.val.t # "array" THEN <<>>
    ELSE LET m == mapFromJSON(parsed.val.a, 1, base, t)
         IN IF m.ok THEN m.val ELSE <<>>

\* ReminderManager.export
managerExport(objs) == JSON_stringify(Array([i \in 1..Len(objs) |-> toJSON(objs[i])]))

\* ReminderManager.import: the objects to append, or a failure (which returns 0).
managerImport(jsonData, base, t) ==
  LET parsed == JSON_parse(jsonData) IN
  IF ~parsed.ok THEN parsed
  ELSE IF parsed.val.t # "array" THEN Throw("TypeError")
  ELSE mapFromJSON(parsed.val.a, 1, base, t)

----------------------------------------------------------------------------
(* StorageLayer *)

\* StorageLayer.isStorageAvailable: false without localStorage or when the
\* probe write raises.
isStorageAvailable(mode) == mode = "ok"

\* A normalization that turns an unknown priority into low.
normalizeToLow(item, fresh, t) ==
  IF item.t \in {"null", "undefined"} THEN Throw("TypeError")
  ELSE
    LET p == IF Prop(item, "priority") \notin validPriorities
               THEN S(<<"low">>) ELSE Prop(item, "priority")
    IN Ok([t |-> "record",
           id |-> OrElse(Prop(item, "id"), generateId(fresh)),
           title |-> OrElse(Prop(item, "title"), S(<<>>)),
           description |-> OrElse(Prop(item, "description"), S(<<>>)),
           dueDate |-> OrElse(Prop(item, "dueDate"), Null),
           priority |-> p,
           category |-> OrElse(Prop(item, "category"), S(<<"general">>)),
           isCompleted |-> Bool(Truthy(Prop(item, "isCompleted"))),
           createdAt |-> OrElse(Prop(item, "createdAt"), Date_toISOString(t)),
           completedAt |-> OrElse(Prop(item, "completedAt"), Null)])

\* StorageLayer._normalizeReminderData: reading a property of null raises.
normalizeReminderData(item, fresh, t) ==
  IF item.t \in {"null", "undefined"} THEN Throw("TypeError")
  ELSE
    LET p1 == IF Prop(item, "priority") = S(<<"normal">>)
                THEN S(<<"medium">>) ELSE Prop(item, "priority")
        p2 == IF p1 \notin validPriorities THEN S(<<"medium">>) ELSE p1
    IN Ok([t |-> "record",
           id |-> OrElse(Prop(item, "id"), generateId(fresh)),
           title |-> OrElse(Prop(item, "title"), S(<<>>)),
           description |-> OrElse(Prop(item, "description"), S(<<>>)),
           dueDate |-> OrElse(Prop(item, "dueDate"), Null),
           priority |-> p2,
           category |-> OrElse(Prop(item, "category"), S(<<"general">>)),
           isCompleted |-> Bool(Truthy(Prop(item, "isCompleted"))),
           createdAt |-> OrElse(Prop(item, "createdAt"), Date_toISOString(t)),
           completedAt |-> OrElse(Prop(item, "completedAt"), Null)])

\* A loop that stops at the first item that raises.
RECURSIVE loadItemsUntilFailure(_, _, _)
loadItemsUntilFailure(items, i, t) ==
  IF i > Len(items) THEN <<>>
  ELSE
    LET n == normalizeReminderData(items[i], MaxObj + i, t)
        r == IF n.ok THEN fromJSON(MaxObj + i, n.val, t) ELSE n
    IN IF r.ok THEN <<r.val>> \o loadItemsUntilFailure(items, i + 1, t) ELSE <<>>

\* The loop of StorageLayer.load and of _migrateFromLegacy: each item is
\* normalized and deserialized; an item that raises is skipped.
RECURSIVE loadItems(_, _, _)
loadItems(items, i, t) ==
  IF i > Len(items) THEN <<>>
  ELSE
    LET n == normalizeReminderData(items[i], MaxObj + i, t)
        r == IF n.ok THEN fromJSON(MaxObj + i, n.val, t) ELSE n
    IN (IF r.ok THEN <<r.val>> ELSE <<>>) \o loadItems(items, i + 1, t)

migrateFromLegacy(legacyData, t) == loadItems(legacyData, 1, t)

\* A save that writes the entities among the elements before it fails.
storageSaveValidOnes(items, sv, mode) ==
  IF ~isStorageAvailable(mode) \/ items.t # "array" THEN [ret |-> FALSE, store |-> sv]
  ELSE [ret |-> \A i \in 1..Len(items.a) : IsReminder(items.a[i]),
        store |-> JSON_stringify(
                    Envelope(1, Array([i \in 1..Len(SelectSeq(items.a, IsReminder))
                                         |-> toJSON(SelectSeq(items.a, IsReminder)[i])])))]

\* StorageLayer.save(reminders): what it returns and the value at the key
\* after the call.  An element that is no Reminder passes the check when it is
\* an object with a non-blank title, and then has no toJSON to call.
storageSave(items, sv, mode) ==
  IF ~isStorageAvailable(mode) THEN [ret |-> FALSE, store |-> sv]
  ELSE IF items.t # "array" THEN [ret |-> FALSE, store |-> sv]
  ELSE IF \E i \in 1..Len(items.a) :
            /\ ~IsReminder(items.a[i])
            /\ \/ ~Truthy(items.a[i])
               \/ ~IsObject(items.a[i])
               \/ TitleIsBlank(Prop(items.a[i], "title"))
    THEN [ret |-> FALSE, store |-> sv]
  ELSE IF \E i \in 1..Len(items.a) : ~IsReminder(items.a[i])
    THEN [ret |-> FALSE, store |-> sv]
  ELSE [ret |-> TRUE,
        store |-> JSON_stringify(
                    Envelope(1, Array([i \in 1..Len(items.a) |-> toJSON(items.a[i])])))]

\* The loop of StorageLayer.saveWithValidation: an entity is kept, a plain
\* object with a non-blank title is constructed from, anything else is
\* skipped with a message; a raise of the constructor is caught, and its
\* message kept.
RECURSIVE validateItems(_, _, _)
validateItems(data, i, t) ==
  IF i > Len(data) THEN [valid |-> <<>>, saved |-> 0, skipped |-> 0, errors |-> <<>>]
  ELSE
    LET item == data[i]
        rest == validateItems(data, i + 1, t)
        keep(r) == [rest EXCEPT !.valid = <<r>> \o @, !.saved = @ + 1]
        skip(msg) == [rest EXCEPT !.skipped = @ + 1, !.errors = <<msg>> \o @]
    IN IF IsReminder(item) THEN keep(item)
       ELSE IF Truthy(item) /\ IsObject(item) /\ ~TitleIsBlank(Prop(item, "title"))
         THEN LET r == Reminder(MaxObj + i, item.title,
                                OrElse(item.description, S(<<>>)),
                                OrElse(item.dueDate, Null),
                                OrElse(item.priority, S(<<"medium">>)),
                                OrElse(item.category, S(<<"general">>)), t)
              IN IF r.ok THEN keep(r.val) ELSE skip(r.err)
       ELSE skip("Invalid reminder data: missing or empty title")

\* A saveWithValidation that counts and does not save.
saveWithValidationNoSave(data, sv, mode, t) ==
  LET v == validateItems(data.a, 1, t)
  IN [ret |-> [saved |-> v.saved, skipped |-> v.skipped, errors |-> v.errors],
      store |-> sv]

\* StorageLayer.saveWithValidation(data): what it returns and the value at
\* the key after the call.
saveWithValidation(data, sv, mode, t) ==
  LET v == validateItems(data.a, 1, t)
  IN [ret |-> [saved |-> v.saved, skipped |-> v.skipped, errors |-> v.errors],
      store |-> storageSave(Array(v.valid), sv, mode).store]

\* StorageLayer.load once the value at the key is parsed: a bare array is
\* migrated and saved back in the current format; of anything else the data
\* property is read.  Reading data of null raises, and so does iterating a
\* data that is no array (the characters of a string are iterated and all
\* skipped); the raise is caught and gives [].
loadParsed(parsed, sv, mode, t) ==
  IF parsed.t = "array"
    THEN LET migrated == migrateFromLegacy(parsed.a, t)
         IN [ret |-> migrated, store |-> storageSave(Array(migrated), sv, mode).store]
  ELSE IF parsed.t # "object" THEN [ret |-> <<>>, store |-> sv]
  ELSE IF ~Truthy(parsed.data) THEN [ret |-> <<>>, store |-> sv]
  ELSE IF parsed.data.t # "array" THEN [ret |-> <<>>, store |-> sv]
  ELSE [ret |-> loadItems(parsed.data.a, 1, t), store |-> sv]

\* A load that removes a value it cannot parse.
storageLoadRemovesCorrupted(sv, mode, t) ==
  IF ~isStorageAvailable(mode) \/ ~Truthy(sv) THEN [ret |-> <<>>, store |-> sv]
  ELSE IF ~JSON_parse(sv).ok THEN [ret |-> <<>>, store |-> Null]
  ELSE loadParsed(JSON_parse(sv).val, sv, mode, t)

\* StorageLayer.load: the entities it returns and the value at the key after
\* the call.
storageLoad(sv, mode, t) ==
  IF ~isStorageAvailable(mode) THEN [ret |-> <<>>, store |-> sv]
  ELSE IF ~Truthy(sv) THEN [ret |-> <<>>, store |-> sv]
  ELSE IF ~JSON_parse(sv).ok THEN [ret |-> <<>>, store |-> sv]
  ELSE loadParsed(JSON_parse(sv).val, sv, mode, t)

\* The loop of StorageLayer.import: an entity is taken as it is, an object
\* with a truthy title is constructed from (a due date given as a string is
\* parsed), anything else is normalized and deserialized; an item that raises
\* leaves a message and the loop goes on.
RECURSIVE importItems(_, _, _, _)
importItems(items, i, base, t) ==
  IF i > Len(items) THEN [new |-> <<>>, imported |-> 0, errors |-> <<>>]
  ELSE
    LET item == items[i]
        rest == importItems(items, i + 1, base, t)
        due == IF ~Truthy(Prop(item, "dueDate")) THEN Ok(Null)
               ELSE IF item.dueDate.t = "string" THEN PlainDateTime_from(item.dueDate)
               ELSE Ok(item.dueDate)
        n == normalizeReminderData(item, base + i, t)
        r == IF IsReminder(item) THEN Ok(item)
             ELSE IF Truthy(item) /\ IsObject(item) /\ Truthy(Prop(item, "title"))
               THEN IF ~due.ok THEN due
                    ELSE Reminder(base + i, item.title,
                                  OrElse(item.description, S(<<>>)), due.val,
                                  OrElse(item.priority, S(<<"medium">>)),
                                  OrElse(item.category, S(<<"general">>)), t)
             ELSE IF n.ok THEN fromJSON(base + i, n.val, t) ELSE n
    IN IF r.ok THEN [rest EXCEPT !.new = <<r.val>> \o @, !.imported = @ + 1]
       ELSE [rest EXCEPT !.errors = <<"Failed to import item: " \o r.err>> \o @]

\* backupData.data is an array.
HasDataArray(backupData) ==
  /\ Truthy(backupData)
  /\ backupData.t = "object"
  /\ Truthy(backupData.data)
  /\ backupData.data.t = "array"

\* An import that replaces what the key holds.
storageImportReplaces(backupData, sv, mode, t) ==
  IF ~HasDataArray(backupData)
    THEN [res |-> "return",
          ret |-> [imported |-> 0, errors |-> <<"Invalid backup data format">>],
          store |-> sv]
  ELSE
    LET m == importItems(backupData.data.a, 1, MaxObj, t)
    IN [res |-> "return", ret |-> [imported |-> m.imported, errors |-> m.errors],
        store |-> storageSave(Array(m.new), sv, mode).store]

\* An import that raises the format error to its caller.
storageImportRaises(backupData, sv, mode, t) ==
  IF ~HasDataArray(backupData)
    THEN [res |-> "throw", err |-> "Invalid backup data format", store |-> sv]
  ELSE
    LET existing == storageLoad(sv, mode, t)
        m == importItems(backupData.data.a, 1, MaxObj + Len(existing.ret), t)
    IN [res |-> "return", ret |-> [imported |-> m.imported, errors |-> m.errors],
        store |-> storageSave(Array(existing.ret \o m.new), existing.store, mode).store]

\* StorageLayer.import(backupData): what it returns and the value at the key
\* after the call.  The format error is raised inside the try whose catch
\* returns it among the errors.
storageImport(backupData, sv, mode, t) ==
  IF ~HasDataArray(backupData)
    THEN [res |-> "return",
          ret |-> [imported |-> 0, errors |-> <<"Invalid backup data format">>],
          store |-> sv]
  ELSE
    LET existing == storageLoad(sv, mode, t)
        m == importItems(backupData.data.a, 1, MaxObj + Len(existing.ret), t)
    IN [res |-> "return", ret |-> [imported |-> m.imported, errors |-> m.errors],
        store |-> storageSave(Array(existing.ret \o m.new), existing.store, mode).store]

\* StorageLayer.clear: the value at the key after the call.
storageClear(sv, mode) == IF isStorageAvailable(mode) THEN Null ELSE sv

\* StorageLayer.getStorageInfo.  size is the length of the text read from the
\* key before load() runs; sizeOf is that text (null for size 0).
getStorageInfo(sv, mode, t) ==
  IF ~isStorageAvailable(mode)
    THEN [ret |-> [sizeOf |-> Null, itemCount |-> 0], store |-> sv]
  ELSE
    LET stored == sv
        loaded == storageLoad(sv, mode, t)
    IN [ret |-> [sizeOf |-> IF Truthy(stored) THEN stored ELSE Null,
                 itemCount |-> Len(loaded.ret)],
        store |-> loaded.store]

\* The object export returns.
Backup(version, exportedAt, data) ==
  [t |-> "object", version |-> version, exportedAt |-> exportedAt, data |-> data]

\* StorageLayer.export: load(), then the records of what it returned.
storageExport(sv, mode, t) ==
  LET loaded == storageLoad(sv, mode, t)
  IN [ret |-> Backup(1, Date_toISOString(t),
                     Array([i \in 1..Len(loaded.ret) |-> toJSON(loaded.ret[i])])),
      loaded |-> loaded.ret,
      store |-> loaded.store]

----------------------------------------------------------------------------
(* ReminderManager: the collection *)

Ref(o) == [t |-> "ref", o |-> o]

\* The state a manager call works on: the heap, the collection, the store.
St(h, rems, sv) == [heap |-> h, reminders |-> rems, store |-> sv]

\* this.reminders.findIndex(r => r.id === id), 0 when there is none
findIndex(h, rems, id) ==
  IF \E i \in 1..Len(rems) : h[rems[i]].id = id
    THEN CHOOSE i \in 1..Len(rems) :
           /\ h[rems[i]].id = id
           /\ \A j \in 1..(i - 1) : h[rems[j]].id # id
    ELSE 0

RemoveAt(seq, i) == SubSeq(seq, 1, i - 1) \o SubSeq(seq, i + 1, Len(seq))

RECURSIVE Filter(_, _, _)
Filter(h, rems, keepCompleted) ==
  IF rems = <<>> THEN <<>>
  ELSE (IF Truthy(h[Head(rems)].isCompleted) = keepCompleted
          THEN <<Head(rems)>> ELSE <<>>) \o Filter(h, Tail(rems), keepCompleted)

\* An add that puts a Reminder it is given at the front.
addInFront(st, x, mode, t) ==
  IF x.t = "ref"
    THEN LET rems == <<x.o>> \o st.reminders
         IN [st |-> St(st.heap, rems,
                       managerSave(Deref(st.heap, rems), st.store, mode)),
             res |-> "ok", ret |-> x.o]
  ELSE IF Truthy(x) /\ IsObject(x) /\ Truthy(Prop(x, "title"))
    THEN LET slot == Used(st.heap) + 1
             r == Reminder(slot, x.title, x.description, x.dueDate,
                           x.priority, x.category, t)
             h == Alloc(st.heap, <<r.val>>)
             rems == Append(st.reminders, slot)
         IN IF ~r.ok THEN [st |-> st, res |-> "throw", err |-> r.err]
            ELSE [st |-> St(h, rems, managerSave(Deref(h, rems), st.store, mode)),
                  res |-> "ok", ret |-> slot]
  ELSE [st |-> st, res |-> "throw", err |-> "Invalid reminder"]

\* ReminderManager.add(reminderData): a Reminder is kept as it is (by
\* reference), a plain object with a truthy title is constructed from.
add(st, x, mode, t) ==
  IF x.t = "ref"
    THEN LET rems == Append(st.reminders, x.o)
         IN [st |-> St(st.heap, rems,
                       managerSave(Deref(st.heap, rems), st.store, mode)),
             res |-> "ok", ret |-> x.o]
  ELSE IF Truthy(x) /\ IsObject(x) /\ Truthy(Prop(x, "title"))
    THEN LET slot == Used(st.heap) + 1
             r == Reminder(slot, x.title, x.description, x.dueDate,
                           x.priority, x.category, t)
             h == Alloc(st.heap, <<r.val>>)
             rems == Append(st.reminders, slot)
         IN IF ~r.ok THEN [st |-> st, res |-> "throw", err |-> r.err]
            ELSE [st |-> St(h, rems, managerSave(Deref(h, rems), st.store, mode)),
                  res |-> "ok", ret |-> slot]
  ELSE [st |-> st, res |-> "throw", err |-> "Invalid reminder"]

\* An addMultiple that passes over the elements add rejects.
RECURSIVE addMultipleSkipping(_, _, _, _)
addMultipleSkipping(st, xs, mode, t) ==
  IF xs = <<>> THEN [st |-> st, res |-> "ok", ret |-> <<>>]
  ELSE
    LET a == add(st, Head(xs), mode, t) IN
    IF a.res # "ok" THEN addMultipleSkipping(st, Tail(xs), mode, t)
    ELSE LET rest == addMultipleSkipping(a.st, Tail(xs), mode, t)
         IN [st |-> rest.st, res |-> "ok", ret |-> <<a.ret>> \o rest.ret]

\* ReminderManager.addMultiple: add, element by element; the first raise ends
\* the call with the earlier elements added and saved.
RECURSIVE addMultiple(_, _, _, _)
addMultiple(st, xs, mode, t) ==
  IF xs = <<>> THEN [st |-> st, res |-> "ok", ret |-> <<>>]
  ELSE
    LET a == add(st, Head(xs), mode, t) IN
    IF a.res # "ok" THEN a
    ELSE LET rest == addMultiple(a.st, Tail(xs), mode, t)
         IN IF rest.res # "ok" THEN rest
            ELSE [st |-> rest.st, res |-> "ok", ret |-> <<a.ret>> \o rest.ret]

\* A remove that does not save.
removeNoSave(st, id, mode) ==
  LET index == findIndex(st.heap, st.reminders, id) IN
  IF index = 0 THEN [st |-> st, res |-> "null"]
  ELSE [st |-> St(st.heap, RemoveAt(st.reminders, index), st.store),
        res |-> "ok", ret |-> st.reminders[index]]

\* ReminderManager.remove(id)
remove(st, id, mode) ==
  LET index == findIndex(st.heap, st.reminders, id)
      rems == RemoveAt(st.reminders, index)
  IN IF index = 0 THEN [st |-> st, res |-> "null"]
     ELSE [st |-> St(st.heap, rems,
                     managerSave(Deref(st.heap, rems), st.store, mode)),
           res |-> "ok", ret |-> st.reminders[index]]

\* ReminderManager.removeCompleted()
removeCompleted(st, mode) ==
  LET rems == Filter(st.heap, st.reminders, FALSE)
  IN [st |-> St(st.heap, rems, managerSave(Deref(st.heap, rems), st.store, mode)),
      res |-> "ok",
      ret |-> Len(Filter(st.heap, st.reminders, TRUE))]

\* ReminderManager.clear()
clear(st, mode) ==
  [st |-> St(st.heap, <<>>, managerSave(<<>>, st.store, mode)), res |-> "ok"]

\* ReminderManager.update(id, updates): getById, Reminder.update, save.  A
\* raise of Reminder.update leaves the call before the save.
managerUpdate(st, id, updates, mode) ==
  LET index == findIndex(st.heap, st.reminders, id) IN
  IF index = 0 THEN [st |-> st, res |-> "null"]
  ELSE
    LET o == st.reminders[index]
        u == update(st.heap[o], updates)
        h == [st.heap EXCEPT ![o] = u.obj]
    IN IF u.err # ""
         THEN [st |-> St(h, st.reminders, st.store), res |-> "throw", err |-> u.err]
         ELSE [st |-> St(h, st.reminders,
                         managerSave(Deref(h, st.reminders), st.store, mode)),
               res |-> "ok", ret |-> o]

\* ReminderManager.import(jsonData)
import(st, jsonData, mode, t) ==
  LET m == managerImport(jsonData, Used(st.heap), t) IN
  IF ~m.ok THEN [st |-> st, res |-> "failed", ret |-> 0]
  ELSE
    LET h == Alloc(st.heap, m.val)
        rems == st.reminders \o [i \in 1..Len(m.val) |-> Used(st.heap) + i]
    IN [st |-> St(h, rems, managerSave(Deref(h, rems), st.store, mode)),
        res |-> "ok", ret |-> Len(m.val)]

----------------------------------------------------------------------------
(* Reminder and ReminderManager: the queries *)

\* The instants of the clock, in minutes after the first one: an hour and a
\* half apart at first, a day apart after that.
Minutes(n) == IF n = 0 THEN 0 ELSE 90 + (n - 1) * (24 * 60)

Duration(minutes) == [t |-> "Duration", minutes |-> minutes]
Num(n) == [t |-> "number", n |-> n]

\* Reminder.timeUntilDue: dueDate.since(now)
timeUntilDue(r, t) ==
  IF ~Truthy(r.dueDate) THEN Null
  ELSE Duration(Minutes(r.dueDate.n) - Minutes(t))

Abs(n) == IF n < 0 THEN 0 - n ELSE n

\* Reminder.timeUntilDueFormatted.  totalHours is minutes / 60, a fraction;
\* Math.floor of it is the floored division by 60, and Math.floor of
\* totalHours / 24 the floored division by 24 * 60.
timeUntilDueFormatted(r, t) ==
  LET duration == timeUntilDue(r, t) IN
  IF ~Truthy(duration) THEN S(<<"No due date">>)
  ELSE
    LET floorHours == duration.minutes \div 60
        totalDays == duration.minutes \div (24 * 60)
    IN IF duration.minutes < 0
         THEN IF totalDays < -1
                THEN S(<<ToString(Abs(totalDays)) \o " days overdue">>)
                ELSE S(<<ToString(Abs(floorHours)) \o " hours overdue">>)
         ELSE IF totalDays >= 1
                THEN S(<<ToString(totalDays) \o " days remaining">>)
                ELSE S(<<ToString(floorHours) \o " hours remaining">>)

\* ReminderManager.getAll: a new array of the same Reminder objects.
getAll(rems) == rems

\* ReminderManager.getCompleted
getCompleted(h, rems) == Filter(h, rems, TRUE)

\* ReminderManager.count
count(rems) == Len(rems)

\* ReminderManager.countCompleted
countCompleted(h, rems) == Len(getCompleted(h, rems))

\* A getUpcoming whose window leaves out its two ends.
RECURSIVE getUpcomingExclusive(_, _, _, _)
getUpcomingExclusive(h, rems, days, t) ==
  IF rems = <<>> THEN <<>>
  ELSE
    LET r == h[Head(rems)]
        keep == IF ~Truthy(r.dueDate) \/ Truthy(r.isCompleted) THEN FALSE
                ELSE /\ Minutes(r.dueDate.n) > Minutes(t)
                     /\ Minutes(r.dueDate.n)
                          < Minutes(t) + Default(days, Num(7)).n * (24 * 60)
    IN (IF keep THEN <<Head(rems)>> ELSE <<>>)
         \o getUpcomingExclusive(h, Tail(rems), days, t)

\* ReminderManager.getUpcoming(days = 7): futureLimit is now plus days days.
RECURSIVE getUpcoming(_, _, _, _)
getUpcoming(h, rems, days, t) ==
  IF rems = <<>> THEN <<>>
  ELSE
    LET r == h[Head(rems)]
        futureLimit == Minutes(t) + Default(days, Num(7)).n * (24 * 60)
        keep == IF ~Truthy(r.dueDate) \/ Truthy(r.isCompleted) THEN FALSE
                ELSE /\ PlainDateTime_compare(r.dueDate, DateTime(t)) >= 0
                     /\ Minutes(r.dueDate.n) <= futureLimit
    IN (IF keep THEN <<Head(rems)>> ELSE <<>>)
         \o getUpcoming(h, Tail(rems), days, t)

\* The priorityOrder table of sortBy.
priorityOrder(p) ==
  CASE p = S(<<"high">>) -> 3
    [] p = S(<<"medium">>) -> 2
    [] p = S(<<"low">>) -> 1

\* A comparator whose priority case follows the order argument.
sortComparatorByOrder(field, order, a, b) ==
  CASE field = "dueDate" ->
         IF ~Truthy(a.dueDate) /\ ~Truthy(b.dueDate) THEN 0
         ELSE IF ~Truthy(a.dueDate) THEN 1
         ELSE IF ~Truthy(b.dueDate) THEN -1
         ELSE PlainDateTime_compare(a.dueDate, b.dueDate)
    [] field = "priority" ->
         IF order = "asc"
           THEN priorityOrder(a.priority) - priorityOrder(b.priority)
           ELSE priorityOrder(b.priority) - priorityOrder(a.priority)
    [] field = "createdAt" -> PlainDateTime_compare(a.createdAt, b.createdAt)

\* The comparator sortBy hands to Array.prototype.sort, for the fields
\* dueDate, priority and createdAt; none of the three reads the order.
sortComparator(field, order, a, b) ==
  CASE field = "dueDate" ->
         IF ~Truthy(a.dueDate) /\ ~Truthy(b.dueDate) THEN 0
         ELSE IF ~Truthy(a.dueDate) THEN 1
         ELSE IF ~Truthy(b.dueDate) THEN -1
         ELSE PlainDateTime_compare(a.dueDate, b.dueDate)
    [] field = "priority" ->
         priorityOrder(b.priority) - priorityOrder(a.priority)
    [] field = "createdAt" -> PlainDateTime_compare(a.createdAt, b.createdAt)

\* Array.prototype.sort is stable: an element goes behind every element that
\* does not compare greater than it.
RECURSIVE InsertSorted(_, _, _, _, _)
InsertSorted(h, field, order, x, sorted) ==
  IF sorted = <<>> THEN <<x>>
  ELSE IF sortComparator(field, order, h[Head(sorted)], h[x]) > 0
    THEN <<x>> \o sorted
    ELSE <<Head(sorted)>> \o InsertSorted(h, field, order, x, Tail(sorted))

\* ReminderManager.sortBy(field, order = 'asc'): sorts a copy.
RECURSIVE sortBy(_, _, _, _)
sortBy(h, rems, field, order) ==
  IF rems = <<>> THEN <<>>
  ELSE InsertSorted(h, field, Default(order, S(<<"asc">>)).s[1], rems[Len(rems)],
                    sortBy(h, SubSeq(rems, 1, Len(rems) - 1), field, order))

----------------------------------------------------------------------------
(* The values the callers pass *)

Args(title, description, dueDate, priority, category) ==
  [NoProps EXCEPT !.title = title, !.description = description,
                  !.dueDate = dueDate, !.priority = priority,
                  !.category = category]

ValidArgs ==
  { Args(S(<<"a">>), Undef, Undef, Undef, Undef),
    Args(S(<<"B">>), S(<<"d">>), DateTime(1), S(<<"high">>), S(<<"work">>)),
    Args(S(<<"a">>), S(<<>>), Null, S(<<"low">>), S(<<>>)) }

InvalidArgs ==
  { Args(S(<<>>), Undef, Undef, Undef, Undef),
    Args(S(<<" ">>), S(<<"d">>), Undef, Undef, Undef),
    Args(Null, Undef, Undef, Undef, Undef),
    Args(S(<<"a">>), S(<<>>), Null, S(<<"invalid">>), Undef) }

\* What add is given besides Reminder objects and field data.
NoReminders == { Null, S(<<"invalid">>), NoProps }

UpdateArgs ==
  { << <<"title", S(<<"B">>)>> >>,
    << <<"description", S(<<"d">>)>>, <<"title", S(<<>>)>> >>,
    << <<"title", S(<<" ">>)>>, <<"description", S(<<"d">>)>> >>,
    << <<"priority", S(<<"invalid">>)>> >>,
    << <<"category", S(<<>>)>>, <<"priority", S(<<"low">>)>> >>,
    << <<"dueDate", DateTime(0)>>, <<"id", S(<<"x">>)>> >> }

CompletedArgs == { Null, Undef, Bool(TRUE), Bool(FALSE) }

LegacyRecord ==
  [NoProps EXCEPT !.id = S(<<"legacy_1">>), !.title = S(<<"a">>),
                  !.description = S(<<"d">>), !.dueDate = Null,
                  !.priority = S(<<"medium">>), !.category = S(<<"general">>),
                  !.isCompleted = Bool(FALSE),
                  !.createdAt = PlainDateTime_toString(DateTime(0)),
                  !.completedAt = Null]

\* A record of an older version: no description, category or completedAt,
\* the old priority value, and marked completed.
OldRecord ==
  [NoProps EXCEPT !.id = S(<<"old_1">>), !.title = S(<<"B">>),
                  !.priority = S(<<"normal">>), !.isCompleted = Bool(TRUE),
                  !.createdAt = PlainDateTime_toString(DateTime(0))]

\* A record holding nothing but an id, a title and a creation time.
MinimalRecord ==
  [NoProps EXCEPT !.id = S(<<"min_1">>), !.title = S(<<"a">>),
                  !.createdAt = PlainDateTime_toString(DateTime(0))]

Corrupted == S(<<"invalid json data">>)

\* Values found at the key that this program did not write in this run.
StoredValues ==
  { Corrupted,
    JSON_stringify(Null),
    JSON_stringify(Envelope(1, Undef)),
    JSON_stringify(Envelope(1, S(<<"x">>))),
    JSON_stringify(Array(<<LegacyRecord>>)),
    JSON_stringify(Envelope(1, Array(<<OldRecord, MinimalRecord>>))),
    JSON_stringify(Envelope(2, Array(<<[NoProps EXCEPT !.title = S(<<"a">>)], Null,
                                       LegacyRecord,
                                       [LegacyRecord EXCEPT !.title = S(<<" ">>)],
                                       OldRecord>>))) }

Objects == {o \in Slots : heap[o] # Free}

\* Sequences of at most two of the objects the callers hold.
RefLists ==
  {<<>>} \cup {<<Ref(o)>> : o \in Objects}
         \cup {<<Ref(o), Ref(p)>> : o \in Objects, p \in Objects}

\* The values of a list of references and plain values.
Values(h, xs) == [i \in 1..Len(xs) |-> IF xs[i].t = "ref" THEN h[xs[i].o] ELSE xs[i]]

NewObjects(xs) == Cardinality({i \in 1..Len(xs) : xs[i].t # "ref"})

----------------------------------------------------------------------------
(* The calls *)

Init ==
  /\ heap = [s \in Slots |-> Free]
  /\ reminders = <<>>
  /\ remindersB = <<>>
  /\ storeVal = Null
  /\ storeMode = "ok"
  /\ now = 0
  /\ last = [op |-> "init"]
  /\ calls = 0

\* Every call counts towards the calls of the run.
Counted == calls < MaxCalls /\ calls' = calls + 1

\* new Reminder(...)
NewReminder ==
  /\ Counted
  /\ Used(heap) < MaxObj
  /\ \E x \in ValidArgs \cup InvalidArgs :
       LET slot == Used(heap) + 1
           r == Reminder(slot, x.title, x.description, x.dueDate, x.priority,
                         x.category, now)
       IN IF r.ok
            THEN /\ heap' = Alloc(heap, <<r.val>>)
                 /\ last' = [op |-> "new", res |-> "ok", obj |-> slot, arg |-> x]
            ELSE /\ heap' = heap
                 /\ last' = [op |-> "new", res |-> "throw", err |-> r.err, arg |-> x]
  /\ UNCHANGED <<reminders, storeVal, storeMode, now, remindersB>>

\* r.markComplete(completed)
MarkComplete ==
  /\ Counted
  /\ \E o \in Objects, c \in CompletedArgs :
       /\ heap' = [heap EXCEPT ![o] = markComplete(@, c, now)]
       /\ last' = [op |-> "markComplete", obj |-> o, arg |-> Default(c, Null),
                   pre |-> heap[o],
                   before |-> IF last.op = "markComplete" /\ last.obj = o
                                THEN [arg |-> last.arg, pre |-> last.pre]
                                ELSE [arg |-> Undef]]
  /\ UNCHANGED <<reminders, storeVal, storeMode, now, remindersB>>

\* r.update(properties)
Update ==
  /\ Counted
  /\ \E o \in Objects, p \in UpdateArgs :
       LET u == update(heap[o], p) IN
       /\ heap' = [heap EXCEPT ![o] = u.obj]
       /\ last' = [op |-> "Reminder.update", obj |-> o,
                   res |-> IF u.err = "" THEN "ok" ELSE "throw", err |-> u.err,
                   pre |-> heap[o]]
  /\ UNCHANGED <<reminders, storeVal, storeMode, now, remindersB>>

\* r.clone()
Clone ==
  /\ Counted
  /\ Used(heap) < MaxObj
  /\ \E o \in Objects :
       LET c == clone(Used(heap) + 1, heap[o], now)
       IN IF c.ok
            THEN /\ heap' = Alloc(heap, <<c.val>>)
                 /\ last' = [op |-> "clone", res |-> "ok", src |-> o,
                             obj |-> Used(heap) + 1]
            ELSE /\ heap' = heap
                 /\ last' = [op |-> "clone", res |-> "throw", src |-> o]
  /\ UNCHANGED <<reminders, storeVal, storeMode, now, remindersB>>

\* Reminder.fromJSON(r.toJSON())
RoundTrip ==
  /\ Counted
  /\ Used(heap) < MaxObj
  /\ \E o \in Objects :
       LET c == fromJSON(Used(heap) + 1, toJSON(heap[o]), now)
       IN IF c.ok
            THEN /\ heap' = Alloc(heap, <<c.val>>)
                 /\ last' = [op |-> "fromJSON", res |-> "ok", src |-> o,
                             obj |-> Used(heap) + 1]
            ELSE /\ heap' = heap
                 /\ last' = [op |-> "fromJSON", res |-> "throw", src |-> o]
  /\ UNCHANGED <<reminders, storeVal, storeMode, now, remindersB>>

\* r.isOverdue()
IsOverdue ==
  /\ Counted
  /\ \E o \in Objects :
       last' = [op |-> "isOverdue", obj |-> o, ret |-> isOverdue(heap[o], now)]
  /\ UNCHANGED <<heap, reminders, storeVal, storeMode, now, remindersB>>

\* The effect of a manager call on the state.
Becomes(r) ==
  /\ heap' = r.st.heap
  /\ reminders' = r.st.reminders
  /\ storeVal' = r.st.store
  /\ UNCHANGED <<storeMode, now, remindersB>>

\* manager.add(x)
Add ==
  /\ Counted
  /\ Len(reminders) < MaxLen
  /\ \E x \in {Ref(o) : o \in Objects} \cup ValidArgs \cup InvalidArgs
                \cup NoReminders :
       /\ Used(heap) + NewObjects(<<x>>) <= MaxObj
       /\ LET r == add(St(heap, reminders, storeVal), x, storeMode, now)
          IN /\ Becomes(r)
             /\ last' = [op |-> "add", res |-> r.res, arg |-> x,
                         ret |-> IF r.res = "ok" THEN r.ret ELSE Undef,
                         pre |-> St(heap, reminders, storeVal)]

\* manager.addMultiple(xs)
AddMultiple ==
  /\ Counted
  /\ Len(reminders) + 2 <= MaxLen
  /\ Used(heap) + 1 <= MaxObj
  /\ \E o \in Objects :
     \E xs \in {<<Ref(o), Ref(o)>>,
                <<Ref(o), Args(S(<<" ">>), S(<<"d">>), Undef, Undef, Undef)>>,
                <<Args(S(<<"a">>), Undef, Undef, Undef, Undef), Ref(o)>>,
                <<Args(S(<<"a">>), Undef, Undef, Undef, Undef), Null>>,
                <<Null, Ref(o)>>} :
       LET r == addMultiple(St(heap, reminders, storeVal), xs, storeMode, now)
       IN /\ Becomes(r)
          /\ last' = [op |-> "addMultiple", res |-> r.res, arg |-> xs,
                      ret |-> IF r.res = "ok" THEN r.ret ELSE Undef,
                      pre |-> St(heap, reminders, storeVal)]

\* The ids remove and update are called with.
Ids == {heap[o].id : o \in Objects} \cup {S(<<"non-existent">>)}

\* manager.remove(id)
Remove ==
  /\ Counted
  /\ \E id \in Ids :
       LET r == remove(St(heap, reminders, storeVal), id, storeMode)
       IN /\ Becomes(r)
          /\ last' = [op |-> "remove", res |-> r.res]

\* manager.removeCompleted()
RemoveCompleted ==
  /\ Counted
  /\ LET r == removeCompleted(St(heap, reminders, storeVal), storeMode)
     IN /\ Becomes(r)
        /\ last' = [op |-> "removeCompleted", res |-> r.res, ret |-> r.ret]

\* manager.clear()
Clear ==
  /\ Counted
  /\ LET r == clear(St(heap, reminders, storeVal), storeMode)
     IN /\ Becomes(r)
        /\ last' = [op |-> "clear", res |-> r.res]

\* manager.update(id, updates)
ManagerUpdate ==
  /\ Counted
  /\ \E id \in Ids, p \in UpdateArgs :
       LET r == managerUpdate(St(heap, reminders, storeVal), id, p, storeMode)
       IN /\ Becomes(r)
          /\ last' = [op |-> "update", res |-> r.res,
                      pre |-> St(heap, reminders, storeVal)]

\* manager.save()
ManagerSave ==
  /\ Counted
  /\ storeVal' = managerSave(Deref(heap, reminders), storeVal, storeMode)
  /\ last' = [op |-> "save", res |-> "ok"]
  /\ UNCHANGED <<heap, reminders, storeMode, now, remindersB>>

\* manager.load(), also run by new ReminderManager()
ManagerLoad ==
  /\ Counted
  /\ LET loaded == managerLoad(storeVal, storeMode, Used(heap), now) IN
     /\ Used(heap) + Len(loaded) <= MaxObj
     /\ heap' = Alloc(heap, loaded)
     /\ reminders' = [i \in 1..Len(loaded) |-> Used(heap) + i]
  /\ last' = [op |-> "load", res |-> "ok"]
  /\ UNCHANGED <<storeVal, storeMode, now, remindersB>>

\* The texts import is called with.
ImportArgs ==
  { managerExport(Deref(heap, reminders)),
    Corrupted,
    JSON_stringify(Array(<<LegacyRecord>>)),
    JSON_stringify(Array(<<LegacyRecord, [NoProps EXCEPT !.title = S(<<"a">>)]>>)) }

\* manager.import(jsonData)
ManagerImport ==
  /\ Counted
  /\ \E jsonData \in ImportArgs :
       LET m == managerImport(jsonData, Used(heap), now)
           n == IF m.ok THEN Len(m.val) ELSE 0
           r == import(St(heap, reminders, storeVal), jsonData, storeMode, now)
       IN /\ Len(reminders) + n <= MaxLen
          /\ Used(heap) + n <= MaxObj
          /\ Becomes(r)
          /\ last' = [op |-> "import", res |-> r.res, ret |-> r.ret]

\* The arguments StorageLayer.save is called with.
SaveArgs ==
  {Array(Values(heap, xs)) : xs \in RefLists}
    \cup {Array(<<x>>) : x \in ValidArgs \cup InvalidArgs} \cup {Null}
    \cup {Array(<<heap[o], x>>) : o \in Objects, x \in {Null, S(<<"invalid">>)}}

\* storage.save(reminders), storage a StorageLayer on the manager's key
StorageSave ==
  /\ Counted
  /\ \E items \in SaveArgs :
       LET r == storageSave(items, storeVal, storeMode) IN
       /\ storeVal' = r.store
       /\ last' = [op |-> "StorageLayer.save", ret |-> r.ret, arg |-> items,
                   pre |-> storeVal]
  /\ UNCHANGED <<heap, reminders, storeMode, now, remindersB>>

\* The lists StorageLayer.saveWithValidation is called with.
BulkArgs ==
  {Array(<<>>)}
    \cup {Array(<<x>>) : x \in ValidArgs \cup {Null}}
    \cup {Array(<<heap[o], x, Args(S(<<"B">>), Undef, Undef, Undef, Undef)>>) :
            o \in Objects, x \in InvalidArgs}

\* storage.saveWithValidation(data)
SaveWithValidation ==
  /\ Counted
  /\ \E data \in BulkArgs :
       LET r == saveWithValidation(data, storeVal, storeMode, now) IN
       /\ storeVal' = r.store
       /\ last' = [op |-> "saveWithValidation", ret |-> r.ret, arg |-> data]
  /\ UNCHANGED <<heap, reminders, storeMode, now, remindersB>>

\* The backups StorageLayer.import is called with.
Backups ==
  { Null, Envelope(1, Undef), Envelope(1, S(<<"x">>)),
    Envelope(1, Array(<<Args(S(<<"a">>), S(<<"d">>), Undef, Undef, Undef),
                        Args(S(<<"B">>), S(<<"d">>), Undef, Undef, Undef)>>)),
    Envelope(1, Array(<<Args(S(<<"a">>), Undef, Undef, Undef, Undef), Null,
                        Args(S(<<"a">>), Undef, Undef, S(<<"invalid">>), Undef),
                        [LegacyRecord EXCEPT !.title = S(<<"B">>)]>>)) }
    \cup {Envelope(1, Array(<<heap[o]>>)) : o \in Objects}

\* storage.import(backupData)
StorageImport ==
  /\ Counted
  /\ \E backupData \in Backups :
       LET r == storageImport(backupData, storeVal, storeMode, now) IN
       /\ storeVal' = r.store
       /\ last' = [op |-> "StorageLayer.import", res |-> r.res, arg |-> backupData,
                   ret |-> IF r.res = "return" THEN r.ret ELSE Undef,
                   pre |-> storeVal]
  /\ UNCHANGED <<heap, reminders, storeMode, now, remindersB>>

\* storage.load()
StorageLoad ==
  /\ Counted
  /\ LET r == storageLoad(storeVal, storeMode, now) IN
     /\ storeVal' = r.store
     /\ last' = [op |-> "StorageLayer.load", ret |-> r.ret, pre |-> storeVal,
                 saved |-> IF last.op = "StorageLayer.save" /\ last.ret
                             THEN last.arg ELSE Undef]
  /\ UNCHANGED <<heap, reminders, storeMode, now, remindersB>>

\* Time passes.
Tick ==
  /\ Counted
  /\ now < MaxTime
  /\ now' = now + 1
  /\ last' = [op |-> "tick"]
  /\ UNCHANGED <<heap, reminders, storeVal, storeMode, remindersB>>

\* localStorage fills up, is taken away, or comes back.
StoreChanges ==
  /\ Counted
  /\ \E m \in (IF storeMode = "ok" THEN {"full", "absent"} ELSE {"ok"}) :
       storeMode' = m
  /\ last' = [op |-> "store"]
  /\ UNCHANGED <<heap, reminders, storeVal, now, remindersB>>

\* The key holds a value of an earlier run when this one starts.
StoredBefore ==
  /\ Counted
  /\ last.op = "init"
  /\ \E v \in StoredValues : storeVal' = v
  /\ last' = [op |-> "stored"]
  /\ UNCHANGED <<heap, reminders, storeMode, now, remindersB>>

Next ==
  \/ NewReminder
  \/ MarkComplete
  \/ Update
  \/ Clone
  \/ RoundTrip
  \/ IsOverdue
  \/ Add
  \/ AddMultiple
  \/ Remove
  \/ RemoveCompleted
  \/ Clear
  \/ ManagerUpdate
  \/ ManagerSave
  \/ ManagerLoad
  \/ ManagerImport
  \/ StorageSave
  \/ StorageLoad
  \/ SaveWithValidation
  \/ StorageImport
  \/ Tick
  \/ StoreChanges
  \/ StoredBefore

Spec == Init /\ [][Next]_vars

----------------------------------------------------------------------------
(* The queries, on a clock that may stand at any instant at the start *)

InitQueries ==
  /\ heap = [s \in Slots |-> Free]
  /\ reminders = <<>>
  /\ remindersB = <<>>
  /\ storeVal = Null
  /\ storeMode = "ok"
  /\ now \in Times
  /\ last = [op |-> "init"]
  /\ calls = 0

\* r.update({dueDate: d})
Reschedule ==
  /\ Counted
  /\ \E o \in Objects, d \in {DateTime(n) : n \in Times} \cup {Null} :
       LET u == update(heap[o], << <<"dueDate", d>> >>) IN
       /\ heap' = [heap EXCEPT ![o] = u.obj]
       /\ last' = [op |-> "Reminder.update", obj |-> o,
                   res |-> IF u.err = "" THEN "ok" ELSE "throw", err |-> u.err,
                   pre |-> heap[o]]
  /\ UNCHANGED <<reminders, storeVal, storeMode, now, remindersB>>

\* r.timeUntilDueFormatted()
TimeUntilDueFormatted ==
  /\ Counted
  /\ \E o \in Objects :
       last' = [op |-> "timeUntilDueFormatted", obj |-> o,
                ret |-> timeUntilDueFormatted(heap[o], now)]
  /\ UNCHANGED <<heap, reminders, storeVal, storeMode, now, remindersB>>

\* manager.getAll()
GetAll ==
  /\ Counted
  /\ last' = [op |-> "getAll", ret |-> getAll(reminders)]
  /\ UNCHANGED <<heap, reminders, storeVal, storeMode, now, remindersB>>

\* What the caller does with the array getAll returned: pop or reverse on
\* the array itself, markComplete or update on one of its elements.
UseReturned ==
  /\ Counted
  /\ last.op = "getAll"
  /\ last.ret # <<>>
  /\ \/ /\ \E a \in {SubSeq(last.ret, 1, Len(last.ret) - 1),
                     [i \in 1..Len(last.ret) |-> last.ret[Len(last.ret) + 1 - i]]} :
             last' = [op |-> "returned", ret |-> a, obj |-> Undef]
        /\ heap' = heap
     \/ \E i \in 1..Len(last.ret) :
          \/ /\ heap' = [heap EXCEPT ![last.ret[i]] = markComplete(@, Undef, now)]
             /\ last' = [op |-> "returned", ret |-> last.ret, obj |-> last.ret[i]]
          \/ /\ heap' = [heap EXCEPT ![last.ret[i]] =
                           update(@, << <<"priority", S(<<"high">>)>> >>).obj]
             /\ last' = [op |-> "returned", ret |-> last.ret, obj |-> last.ret[i]]
  /\ UNCHANGED <<reminders, storeVal, storeMode, now, remindersB>>

\* manager.sortBy(field, order)
SortBy ==
  /\ Counted
  /\ \E field \in {"priority", "dueDate", "createdAt"},
        order \in {Undef, S(<<"asc">>), S(<<"desc">>)} :
       last' = [op |-> "sortBy", field |-> field, order |-> order,
                ret |-> sortBy(heap, reminders, field, order),
                pre |-> St(heap, reminders, storeVal)]
  /\ UNCHANGED <<heap, reminders, storeVal, storeMode, now, remindersB>>

\* manager.getUpcoming(days)
GetUpcoming ==
  /\ Counted
  /\ \E days \in {Undef, Num(0), Num(1)} :
       last' = [op |-> "getUpcoming", days |-> days,
                ret |-> getUpcoming(heap, reminders, days, now)]
  /\ UNCHANGED <<heap, reminders, storeVal, storeMode, now, remindersB>>

NextQueries ==
  \/ NewReminder
  \/ Reschedule
  \/ MarkComplete
  \/ Add
  \/ Tick
  \/ TimeUntilDueFormatted
  \/ GetAll
  \/ UseReturned
  \/ SortBy
  \/ GetUpcoming

SpecQueries == InitQueries /\ [][NextQueries]_vars

----------------------------------------------------------------------------
(* The storage layer on its own *)

\* storage.clear()
StorageClear ==
  /\ Counted
  /\ storeVal' = storageClear(storeVal, storeMode)
  /\ last' = [op |-> "StorageLayer.clear", pre |-> storeVal]
  /\ UNCHANGED <<heap, reminders, storeMode, now, remindersB>>

\* storage.getStorageInfo()
GetStorageInfo ==
  /\ Counted
  /\ LET r == getStorageInfo(storeVal, storeMode, now) IN
     /\ storeVal' = r.store
     /\ last' = [op |-> "getStorageInfo", ret |-> r.ret, pre |-> storeVal]
  /\ UNCHANGED <<heap, reminders, storeMode, now, remindersB>>

\* storage.export()
StorageExport ==
  /\ Counted
  /\ LET r == storageExport(storeVal, storeMode, now) IN
     /\ storeVal' = r.store
     /\ last' = [op |-> "StorageLayer.export", ret |-> r.ret, pre |-> storeVal]
  /\ UNCHANGED <<heap, reminders, storeMode, now, remindersB>>

\* b = storage.export(); storage.clear(); storage.import(b)
BackupRoundTrip ==
  /\ Counted
  /\ \E b \in {storageExport(storeVal, storeMode, now)} :
     \E cleared \in {storageClear(b.store, storeMode)} :
     \E r \in {storageImport(b.ret, cleared, storeMode, now)} :
       /\ storeVal' = r.store
       /\ last' = [op |-> "backupRoundTrip", before |-> b.loaded, ret |-> r.ret,
                   pre |-> storeVal]
  /\ UNCHANGED <<heap, reminders, storeMode, now, remindersB>>

NextStorage ==
  \/ StoredBefore
  \/ NewReminder
  \/ MarkComplete
  \/ StorageSave
  \/ StorageLoad
  \/ StorageClear
  \/ GetStorageInfo
  \/ StorageExport
  \/ BackupRoundTrip
  \/ StoreChanges
  \/ Tick

SpecStorage == Init /\ [][NextStorage]_vars

----------------------------------------------------------------------------
(* Two managers on the same storage key *)

\* The effect of a call of the second manager on the state.
BecomesB(r) ==
  /\ heap' = r.st.heap
  /\ remindersB' = r.st.reminders
  /\ storeVal' = r.st.store
  /\ UNCHANGED <<reminders, storeMode, now>>

\* new ReminderManager() a second time, and its load()
BLoad ==
  /\ Counted
  /\ LET loaded == managerLoad(storeVal, storeMode, Used(heap), now) IN
     /\ Used(heap) + Len(loaded) <= MaxObj
     /\ heap' = Alloc(heap, loaded)
     /\ remindersB' = [i \in 1..Len(loaded) |-> Used(heap) + i]
  /\ last' = [op |-> "B.load", res |-> "ok"]
  /\ UNCHANGED <<reminders, storeVal, storeMode, now>>

\* add(x) on the second manager
BAdd ==
  /\ Counted
  /\ Len(remindersB) < MaxLen
  /\ Used(heap) < MaxObj
  /\ \E x \in ValidArgs \cup InvalidArgs :
       LET r == add(St(heap, remindersB, storeVal), x, storeMode, now)
       IN /\ BecomesB(r)
          /\ last' = [op |-> "B.add", res |-> r.res]

\* remove(id) on the second manager
BRemove ==
  /\ Counted
  /\ \E id \in Ids :
       LET r == remove(St(heap, remindersB, storeVal), id, storeMode)
       IN /\ BecomesB(r)
          /\ last' = [op |-> "B.remove", res |-> r.res]

NextTwo ==
  \/ Add
  \/ Remove
  \/ ManagerLoad
  \/ BLoad
  \/ BAdd
  \/ BRemove

SpecTwo == Init /\ [][NextTwo]_vars

----------------------------------------------------------------------------
(* The claims *)

\* The manager calls that change the collection and save it.
ManagerWrites ==
  {"add", "addMultiple", "remove", "removeCompleted", "clear", "update", "import"}

\* The last call was a manager mutation that returned normally, and the
\* store took its write.
Persisted == last.op \in ManagerWrites /\ last.res = "ok" /\ storeMode = "ok"

\* C1: after every manager mutation that returns normally, when the store
\* accepts the write, the value at the key decodes (as manager.load decodes
\* it) to the in-memory collection: same length, order, ids and field values.
C1_AutoPersistence ==
  Persisted => managerLoad(storeVal, storeMode, 0, now) = Deref(heap, reminders)

C1_Witness ==
  /\ Persisted
  /\ last.op = "add"
  /\ Len(reminders) = 2
  /\ \E i \in 1..Len(reminders) :
       /\ Truthy(heap[reminders[i]].completedAt)
       /\ Truthy(heap[reminders[i]].dueDate)

IsEnvelopeText(v) == Truthy(v) /\ JSON_parse(v).ok /\ JSON_parse(v).val.t = "object"

C3_UpdateAtomic ==
  (last.op = "Reminder.update" /\ last.res = "throw") => heap[last.obj] = last.pre

\* The entities the last call returned, when it was StorageLayer.load.
Loaded == IF last.op = "StorageLayer.load" THEN last.ret ELSE <<>>

CompletionConsistent(r) == (r.completedAt # Null) <=> (r.isCompleted = Bool(TRUE))

\* C4: for every Reminder, however it came to be (construction, markComplete,
\* update, clone, fromJSON, load of any stored record), completedAt is
\* non-null if and only if isCompleted is true.
C4_CompletedAtIffCompleted ==
  /\ \A o \in Objects : CompletionConsistent(heap[o])
  /\ \A i \in 1..Len(Loaded) : CompletionConsistent(Loaded[i])

WellFormed(r) == ~TitleIsBlank(r.title) /\ r.priority \in validPriorities

\* C5: every Reminder has a title that is non-empty after trimming and a
\* priority among low, medium, high; construction with a blank title or with
\* a priority outside the set raises.
C5_ValidTitleAndPriority ==
  /\ \A o \in Objects : WellFormed(heap[o])
  /\ \A i \in 1..Len(Loaded) : WellFormed(Loaded[i])
  /\ (last.op = "new" /\ (\/ TitleIsBlank(last.arg.title)
                          \/ last.arg.priority \notin validPriorities \cup {Undef}))
       => last.res = "throw"

C5_Witness ==
  /\ last.op = "new"
  /\ last.arg.title = S(<<" ">>)
  /\ last.res = "throw"
  /\ Objects # {}

\* C6: no two entities of a manager's collection have the same id.
C6_UniqueIds ==
  \A i, j \in 1..Len(reminders) :
    i # j => heap[reminders[i]].id # heap[reminders[j]].id

\* C7: markComplete() toggles isCompleted, twice in a row restores it,
\* markComplete(b) sets it to b, and after each call completedAt is non-null
\* exactly when isCompleted is true.
C7_MarkComplete ==
  last.op = "markComplete" =>
    LET r == heap[last.obj] IN
    /\ last.arg = Null => r.isCompleted = Bool(~Truthy(last.pre.isCompleted))
    /\ last.arg # Null => r.isCompleted = last.arg
    /\ (last.arg = Null /\ last.before.arg = Null)
         => r.isCompleted = last.before.pre.isCompleted
    /\ CompletionConsistent(r)

C7_Witness ==
  /\ last.op = "markComplete"
  /\ last.arg = Null
  /\ last.before.arg = Null
  /\ last.pre.isCompleted = Bool(TRUE)
  /\ heap[last.obj].completedAt = Null

\* C8: isOverdue() is true if and only if the due date is set, the entity is
\* not completed and the due date is strictly earlier than now.
C8_IsOverdue ==
  last.op = "isOverdue" =>
    LET r == heap[last.obj] IN
    last.ret <=> (IF r.dueDate = Null \/ r.isCompleted = Bool(TRUE) THEN FALSE
                  ELSE r.dueDate.n < now)

C8_Witness ==
  /\ last.op = "isOverdue"
  /\ heap[last.obj].dueDate = DateTime(now)
  /\ heap[last.obj].isCompleted = Bool(FALSE)
  /\ ~last.ret

\* C9: Reminder.fromJSON(r.toJSON()) has the id, title, description,
\* priority, category, isCompleted, dueDate, createdAt and completedAt of r.
C9_RoundTrip ==
  last.op = "fromJSON" => last.res = "ok" /\ heap[last.obj] = heap[last.src]

C9_Witness ==
  /\ last.op = "fromJSON"
  /\ last.res = "ok"
  /\ Truthy(heap[last.src].completedAt)
  /\ Truthy(heap[last.src].dueDate)

\* C10: StorageLayer.save(entities) followed by load() returns a sequence of
\* the same length and order with the same field values.
C10_StorageRoundTrip ==
  (last.op = "StorageLayer.load" /\ last.saved # Undef /\ storeMode = "ok")
    => last.ret = last.saved.a

\* The properties of a serialized Reminder.
RecordKeys ==
  {"id", "title", "description", "dueDate", "priority", "category",
   "isCompleted", "createdAt", "completedAt"}

IsCompleteRecord(r) == r.t = "record" /\ \A k \in RecordKeys : r[k] # Undef

\* The value StorageLayer.load found at the key, parsed (Undef when there was
\* none or it was no JSON text).
ParsedBefore ==
  IF last.op = "StorageLayer.load" /\ Truthy(last.pre) /\ JSON_parse(last.pre).ok
    THEN JSON_parse(last.pre).val ELSE Undef

\* C11: StorageLayer.load of a bare array of complete entity records returns
\* the entities of those records, field for field and in order, and leaves
\* the version-1 envelope of the same records at the key; a load that finds
\* an envelope writes nothing.
C11_LegacyMigration ==
  (last.op = "StorageLayer.load" /\ storeMode = "ok") =>
    /\ (/\ ParsedBefore.t = "array"
        /\ \A i \in 1..Len(ParsedBefore.a) : IsCompleteRecord(ParsedBefore.a[i]))
         => /\ [i \in 1..Len(last.ret) |-> toJSON(last.ret[i])] = ParsedBefore.a
            /\ storeVal = JSON_stringify(Envelope(1, ParsedBefore))
    /\ ParsedBefore.t = "object" => storeVal = last.pre

\* The value load found is neither a bare array nor an envelope with an
\* array of data.
NothingToLoad ==
  \/ ~isStorageAvailable(storeMode)
  \/ ParsedBefore = Undef
  \/ ParsedBefore.t \notin {"array", "object"}
  \/ ParsedBefore.t = "object" /\ ParsedBefore.data.t # "array"

\* C12: StorageLayer.load returns a sequence of entities whatever the store
\* holds; without a store, without a value, and for a value that is not
\* parseable or is neither an array nor an envelope with an array of data, the
\* sequence is empty and the stored value is left as it was.
C12_LoadNeverThrows ==
  last.op = "StorageLayer.load" =>
    /\ DOMAIN last.ret = 1..Len(last.ret)
    /\ \A i \in 1..Len(last.ret) : IsReminder(last.ret[i])
    /\ NothingToLoad => last.ret = <<>> /\ storeVal = last.pre

C12_Witness ==
  /\ last.op = "StorageLayer.load"
  /\ storeMode = "ok"
  /\ last.pre = Corrupted
  /\ last.ret = <<>>
  /\ storeVal = Corrupted

\* A date property of a stored record that fromJSON can read.
ReadableDate(v) == ~Truthy(v) \/ PlainDateTime_from(v).ok

\* A stored record that normalizes and deserializes: an object with a
\* non-blank title, a creation time, and dates that parse.
Loadable(item) ==
  /\ item.t = "record"
  /\ ~TitleIsBlank(item.title)
  /\ Truthy(item.createdAt)
  /\ PlainDateTime_from(item.createdAt).ok
  /\ ReadableDate(item.dueDate)
  /\ ReadableDate(item.completedAt)

\* The records of the envelope load found (none when it found no envelope).
DataBefore ==
  IF ParsedBefore.t = "object" /\ ParsedBefore.data.t = "array" /\ storeMode = "ok"
    THEN ParsedBefore.data.a ELSE <<>>

ItemsBefore ==
  IF ParsedBefore.t = "array" /\ storeMode = "ok" THEN ParsedBefore.a ELSE DataBefore

Savable(x) ==
  IsReminder(x) \/ (x.t = "record" /\ ~TitleIsBlank(x.title))

ValidItem(x) ==
  \/ IsReminder(x)
  \/ /\ x.t = "record"
     /\ ~TitleIsBlank(x.title)
     /\ (Truthy(x.priority) => x.priority \in validPriorities)

\* C16: saveWithValidation returns saved + skipped = the number of items and
\* one error per skipped item; on an available store the stored data then
\* holds one record per valid item, in the order of the items.
C16_BulkAccounting ==
  last.op = "saveWithValidation" =>
    LET valid == SelectSeq(last.arg.a, ValidItem) IN
    /\ last.ret.saved + last.ret.skipped = Len(last.arg.a)
    /\ Len(last.ret.errors) = last.ret.skipped
    /\ last.ret.saved = Len(valid)
    /\ storeMode = "ok" =>
         /\ IsEnvelopeText(storeVal)
         /\ Len(JSON_parse(storeVal).val.data.a) = last.ret.saved
         /\ \A i \in 1..Len(valid) :
              JSON_parse(storeVal).val.data.a[i].title = valid[i].title

C16_Witness ==
  /\ last.op = "saveWithValidation"
  /\ storeMode = "ok"
  /\ Len(last.arg.a) = 3
  /\ last.ret.saved = 2
  /\ last.ret.skipped = 1
  /\ last.ret.errors = <<"Invalid priority level">>

\* An element of a backup that import turns into an entity: an entity, or an
\* object with a non-blank title, a priority of the three when it has one,
\* and a due date that parses.
Importable(x) ==
  \/ IsReminder(x)
  \/ /\ x.t = "record"
     /\ ~TitleIsBlank(x.title)
     /\ (Truthy(x.priority) => x.priority \in validPriorities)
     /\ ReadableDate(x.dueDate)

\* C17: after StorageLayer.import of a backup whose data is an array, on an
\* available store, the entities the key decodes to are those it decoded to
\* before followed by one entity per importable element, in backup order;
\* imported + errors.length is the number of elements, whatever fails.
C17_ImportAppends ==
  (last.op = "StorageLayer.import" /\ HasDataArray(last.arg)) =>
    LET before == storageLoad(last.pre, storeMode, now).ret
        after == storageLoad(storeVal, storeMode, now).ret
        new == SelectSeq(last.arg.data.a, Importable)
    IN /\ last.res = "return"
       /\ last.ret.imported + Len(last.ret.errors) = Len(last.arg.data.a)
       /\ last.ret.imported = Len(new)
       /\ storeMode = "ok" =>
            /\ Len(after) = Len(before) + Len(new)
            /\ SubSeq(after, 1, Len(before)) = before
            /\ \A i \in 1..Len(new) : after[Len(before) + i].title = new[i].title

C17_Witness ==
  /\ last.op = "StorageLayer.import"
  /\ HasDataArray(last.arg)
  /\ storeMode = "ok"
  /\ Len(storageLoad(last.pre, storeMode, now).ret) = 2
  /\ Len(last.arg.data.a) = 4
  /\ last.ret.imported = 2
  /\ Len(last.ret.errors) = 2
  /\ Len(storageLoad(storeVal, storeMode, now).ret) = 4

StateNow == St(heap, reminders, storeVal)

\* Field data add cannot make a Reminder of: no object, no usable title, or
\* a priority outside the three.
InvalidForAdd(x) ==
  /\ x.t # "ref"
  /\ \/ x.t # "record"
     \/ TitleIsBlank(x.title)
     \/ x.priority \notin validPriorities \cup {Undef}

\* C19: ReminderManager.add of an entity or of valid field data appends one
\* entity at the end of the collection and returns it; add of null, of a
\* non-object, of an object without a usable title or with an invalid
\* priority raises and leaves the collection and the stored value unchanged.
C19_Add ==
  last.op = "add" =>
    /\ InvalidForAdd(last.arg) <=> last.res = "throw"
    /\ last.res = "throw" => StateNow = last.pre
    /\ last.res = "ok" =>
         /\ reminders = Append(last.pre.reminders, last.ret)
         /\ \A o \in Slots : last.pre.heap[o] # Free => heap[o] = last.pre.heap[o]
         /\ IF last.arg.t = "ref" THEN last.ret = last.arg.o
            ELSE /\ last.pre.heap[last.ret] = Free
                 /\ heap[last.ret].title = last.arg.title

C19_Witness ==
  /\ last.op = "add"
  /\ last.res = "throw"
  /\ last.arg.t = "record"
  /\ last.arg.title = S(<<" ">>)
  /\ Len(reminders) >= 1
  /\ Truthy(storeVal)

\* C20: ReminderManager.update of an unknown id returns null and changes
\* nothing; an update that fails validation raises and leaves the stored
\* value and the in-memory entity unchanged.
C20_UpdateFailure ==
  (last.op = "update" /\ last.res \in {"null", "throw"}) => StateNow = last.pre

\* C25: StorageLayer.save of elements that are each an entity or a plain
\* record with a non-blank title, on an available store, returns true and
\* leaves the version-1 envelope with one record per element.
C25_SaveAcceptsPlainRecords ==
  (/\ last.op = "StorageLayer.save"
   /\ storeMode = "ok"
   /\ last.arg.t = "array"
   /\ \A i \in 1..Len(last.arg.a) : Savable(last.arg.a[i])) =>
    /\ last.ret
    /\ IsEnvelopeText(storeVal)
    /\ JSON_parse(storeVal).val.version = 1
    /\ Len(JSON_parse(storeVal).val.data.a) = Len(last.arg.a)

\* C26: markComplete(true) on a completed entity leaves completedAt at the
\* instant of the completion, markComplete(false) on one that is not
\* completed leaves it null, and update changes neither completedAt nor
\* isCompleted.
C26_CompletedAtOnlyOnToggle ==
  /\ last.op = "markComplete" =>
       /\ (last.arg = Bool(TRUE) /\ last.pre.isCompleted = Bool(TRUE))
            => heap[last.obj].completedAt = last.pre.completedAt
       /\ (last.arg = Bool(FALSE) /\ last.pre.isCompleted = Bool(FALSE))
            => heap[last.obj].completedAt = Null
  /\ last.op = "Reminder.update" =>
       /\ heap[last.obj].completedAt = last.pre.completedAt
       /\ heap[last.obj].isCompleted = last.pre.isCompleted

\* The place of the first element add rejects (past the end when there is
\* none).
FirstInvalid(xs) ==
  IF \E i \in 1..Len(xs) : InvalidForAdd(xs[i])
    THEN CHOOSE i \in 1..Len(xs) :
           InvalidForAdd(xs[i]) /\ \A j \in 1..(i - 1) : ~InvalidForAdd(xs[j])
    ELSE Len(xs) + 1

\* C28: addMultiple adds the elements in order and returns the added entities
\* in that order; when element k is invalid the call raises, the k-1 elements
\* before it are in the collection and in storage, and no later element is
\* added.
C28_AddMultiple ==
  last.op = "addMultiple" =>
    LET k == FirstInvalid(last.arg)
        n == Len(last.pre.reminders)
    IN /\ last.res = IF k > Len(last.arg) THEN "ok" ELSE "throw"
       /\ Len(reminders) = n + k - 1
       /\ SubSeq(reminders, 1, n) = last.pre.reminders
       /\ \A i \in 1..(k - 1) :
            IF last.arg[i].t = "ref" THEN reminders[n + i] = last.arg[i].o
            ELSE /\ last.pre.heap[reminders[n + i]] = Free
                 /\ heap[reminders[n + i]].title = last.arg[i].title
       /\ last.res = "ok" => last.ret = SubSeq(reminders, n + 1, Len(reminders))
       /\ k = 1 => StateNow = last.pre
       /\ (k > 1 /\ storeMode = "ok")
            => managerLoad(storeVal, storeMode, 0, now) = Deref(heap, reminders)

C28_Witness ==
  /\ last.op = "addMultiple"
  /\ last.res = "throw"
  /\ Len(last.arg) = 2
  /\ FirstInvalid(last.arg) = 2
  /\ Len(reminders) = Len(last.pre.reminders) + 1
  /\ storeMode = "ok"
  /\ storeVal # last.pre.store

\* What later getAll(), count(), countCompleted() and sortBy() calls show of
\* the manager.
Observed ==
  [all |-> Deref(heap, getAll(reminders)),
   count |-> count(reminders),
   countCompleted |-> countCompleted(heap, reminders),
   sorted |-> Deref(heap, sortBy(heap, reminders, "priority", Undef))]

\* C21: nothing a caller does with the sequence getAll() returned (removing
\* or reordering its elements, markComplete or update on its elements)
\* changes what later getAll(), count(), countCompleted() and sortBy() show.
C21_GetAllIsolation ==
  [][last'.op = "returned" => Observed' = Observed]_vars

Card(ret, o) == Cardinality({i \in 1..Len(ret) : ret[i] = o})

\* C22: sortBy("priority", order), for asc and for desc, returns a permutation
\* of the collection with every high before every medium and every medium
\* before every low, and leaves the collection's order as it was.
C22_SortByPriority ==
  (last.op = "sortBy" /\ last.field = "priority") =>
    /\ Len(last.ret) = Len(reminders)
    /\ \A o \in Slots : Card(last.ret, o) = Card(reminders, o)
    /\ \A i, j \in 1..Len(last.ret) :
         i < j =>
           /\ heap[last.ret[i]].priority = S(<<"medium">>)
                => heap[last.ret[j]].priority # S(<<"high">>)
           /\ heap[last.ret[i]].priority = S(<<"low">>)
                => heap[last.ret[j]].priority = S(<<"low">>)
    /\ reminders = last.pre.reminders

C22_Witness ==
  /\ last.op = "sortBy"
  /\ last.field = "priority"
  /\ last.order = S(<<"desc">>)
  /\ Len(reminders) = 3
  /\ heap[reminders[1]].priority = S(<<"low">>)
  /\ heap[reminders[2]].priority = S(<<"medium">>)
  /\ heap[reminders[3]].priority = S(<<"high">>)
  /\ last.ret = <<reminders[3], reminders[2], reminders[1]>>

\* The window of getUpcoming, in minutes.
InWindow(r, days) ==
  /\ ~Truthy(r.isCompleted)
  /\ r.dueDate # Null
  /\ Minutes(now) <= Minutes(r.dueDate.n)
  /\ Minutes(r.dueDate.n) <= Minutes(now) + Default(days, Num(7)).n * 24 * 60

\* The places of the collection getUpcoming keeps.
Kept(days) == {i \in 1..Len(reminders) : InWindow(heap[reminders[i]], days)}

\* C23: getUpcoming(windowDays) returns exactly the entities that are not
\* completed and have a due date d with now <= d <= now + windowDays, both
\* ends included, in collection order; none of them is overdue.
C23_GetUpcoming ==
  last.op = "getUpcoming" =>
    /\ Len(last.ret) = Cardinality(Kept(last.days))
    /\ \A i \in 1..Len(last.ret) :
         \E k \in Kept(last.days) :
           /\ reminders[k] = last.ret[i]
           /\ Cardinality({j \in Kept(last.days) : j < k}) = i - 1
    /\ \A i \in 1..Len(last.ret) : ~isOverdue(heap[last.ret[i]], now)

C23_Witness ==
  /\ last.op = "getUpcoming"
  /\ last.days = Num(1)
  /\ Len(reminders) = 2
  /\ Len(last.ret) = 2
  /\ heap[last.ret[1]].dueDate = DateTime(now + 1)
  /\ Minutes(now + 1) = Minutes(now) + 24 * 60
  /\ heap[last.ret[2]].dueDate = DateTime(now)

\* C24: with D = dueDate - now in whole minutes, timeUntilDueFormatted gives
\* "No due date" without a due date, for D > 0 the whole days when D is a day
\* or more and the whole hours otherwise, for D < 0 the whole days of |D| when
\* |D| is more than a day and the whole hours of |D| otherwise.
C24_TimeUntilDueFormatted ==
  last.op = "timeUntilDueFormatted" =>
    LET r == heap[last.obj] IN
    IF r.dueDate = Null THEN last.ret = S(<<"No due date">>)
    ELSE
      LET D == Minutes(r.dueDate.n) - Minutes(now)
          day == 24 * 60
      IN /\ D > 0 =>
              last.ret = IF D >= day
                           THEN S(<<ToString(D \div day) \o " days remaining">>)
                           ELSE S(<<ToString(D \div 60) \o " hours remaining">>)
         /\ D < 0 =>
              last.ret = IF Abs(D) > day
                           THEN S(<<ToString(Abs(D) \div day) \o " days overdue">>)
                           ELSE S(<<ToString(Abs(D) \div 60) \o " hours overdue">>)

\* The entities a load of the key returns now.
StoredNow == storageLoad(storeVal, storeMode, now).ret

\* C29: b = export(), clear(), import(b) leaves a stored sequence of the same
\* length and order whose entities have the title, description, dueDate,
\* priority, category, isCompleted, createdAt and completedAt they had before
\* the export.
C29_BackupRoundTrip ==
  (last.op = "backupRoundTrip" /\ storeMode = "ok") =>
    /\ Len(StoredNow) = Len(last.before)
    /\ \A i \in 1..Len(last.before) :
         \A f \in {"title", "description", "dueDate", "priority", "category",
                   "isCompleted", "createdAt", "completedAt"} :
           StoredNow[i][f] = last.before[i][f]

\* C30: getStorageInfo() and export() leave the value at the key as it was,
\* so the text getStorageInfo() measured is the one stored when it returns.
C30_ReadOnly ==
  /\ last.op \in {"getStorageInfo", "StorageLayer.export"} => storeVal = last.pre
  /\ (last.op = "getStorageInfo" /\ storeMode = "ok" /\ Truthy(storeVal))
       => last.ret.sizeOf = storeVal

\* What the key decodes to.
Decoded == managerLoad(storeVal, storeMode, 0, now)

\* C27: with two managers on the same key, after a mutation by one of them
\* the stored value decodes to that manager's collection, whatever the other
\* wrote before; and a call of one manager leaves the collection of the other
\* as it was.
C27_LastWriterWins ==
  /\ [](/\ (last.op \in {"add", "remove"} /\ last.res = "ok")
             => Decoded = Deref(heap, reminders)
        /\ (last.op \in {"B.add", "B.remove"} /\ last.res = "ok")
             => Decoded = Deref(heap, remindersB))
  /\ [][/\ last'.op \in {"B.load", "B.add", "B.remove"}
             => Deref(heap', reminders') = Deref(heap, reminders)
        /\ last'.op \in {"load", "add", "remove"}
             => Deref(heap', remindersB') = Deref(heap, remindersB)]_vars

C27_Witness ==
  /\ last.op = "remove"
  /\ last.res = "ok"
  /\ reminders = <<>>
  /\ Len(remindersB) = 2
  /\ Decoded = <<>>

====
